---- MODULE Spec2Model ----
(***************************************************************************)
(* Model of src/leaf.py (space colonisation of a leaf's veins).            *)
(*                                                                         *)
(* Geometry.  Lengths are counted in units of STP (line 83), so that       *)
(* killzone = veinNode = 1 and sourceDist = 7.  The configurations         *)
(* explored are the collinear ones: the root vein node and all source      *)
(* nodes lie on one diameter of the circle of sources, the root at         *)
(* coordinate 0 and the sources at integer coordinates 0..Diam.  On that   *)
(* line every angle arctan2(0,t) is 0 (t >= 0) or pi (t < 0), every step   *)
(* cos(a)*veinNode is +1 or -1, and all positions stay integers, so the    *)
(* comparisons of the code are computed exactly.                           *)
(*                                                                         *)
(* Triangulation.  scipy's Delaunay object is not modelled; what the code  *)
(* reads from it (lines 284-291) is, for every source node, a set vv[j]    *)
(* of vein node indices.  MakeNodemap draws each vv[j] from the non-empty  *)
(* subsets of the vein nodes the triangulation was built from (Spec);      *)
(* MakeNodemapAny also admits the empty set (SpecAny).                     *)
(*                                                                         *)
(* Indices.  Vein nodes are numbered from 0 as in the code.  Source nodes  *)
(* are numbered from 1 (sequences), one more than in the code.             *)
(***************************************************************************)
EXTENDS Integers, Sequences, FiniteSets, TLC

\* ---- bounds of the model ------------------------------------------------
\* length of XY, P and W (int(vmax), lines 106 and 324-326)
vmax == 3
\* largest number of source nodes returned by darts (line 327)
MaxSrc == 3
\* largest coordinate of a source node (2*RAD/STP, lines 87 and 206-207)
Diam == 18

\* ---- constants of the program, in units of STP ---------------------------
rootNodes == 1
killzone == 1
veinNode == 1
sourceDist == 7

\* noCand is a history variable: the sources whose candidate set vv[j] was
\* empty in the last call of makeNodemap (vv itself is local to that call)
VARIABLES pc, at, outcome, drawn, XY, P, W, o, oo, sXY, snum,
          vv, SVdict, VSdict, mask, gi, ki, noCand

vars == <<pc, at, outcome, drawn, XY, P, W, o, oo, sXY, snum,
          vv, SVdict, VSdict, mask, gi, ki, noCand>>

\* ---- helpers -------------------------------------------------------------
Abs(x) == IF x < 0 THEN -x ELSE x

maximum(x, y) == IF x < y THEN y ELSE x

\* cos(arctan2(0,t)): 1 for t >= 0 (arctan2(0,0) = 0), -1 for t < 0
cosA(t) == IF t >= 0 THEN 1 ELSE -1

\* an index array in increasing order (np.unique, boolean-mask selection)
RECURSIVE sorted(_)
sorted(S) ==
  IF S = {} THEN <<>>
  ELSE LET m == CHOOSE x \in S : \A y \in S : x <= y
       IN  <<m>> \o sorted(S \ {m})

Range(s) == {s[n] : n \in DOMAIN s}

\* the rows of XY, P and W that exist when the slice [:o] is taken
Stored == 0 .. ((IF o < vmax THEN o ELSE vmax) - 1)

\* cdist(XY[:o,:], sXY)[i,j]
distVS(i, j) == Abs(XY[i] - sXY[j])

\* cdist(lXY[uniqvv,:], lXY[uniqvv,:])[a,b]
vvdist(a, b) == Abs(XY[a] - XY[b])

\* ---- darts ---------------------------------------------------------------
\* at most MaxSrc points, pairwise farther apart than sourceDist
SourceSeqs ==
  {s \in UNION {[1..n -> 0..Diam] : n \in 1..MaxSrc} :
     \A a, b \in DOMAIN s : a # b => Abs(s[a] - s[b]) > sourceDist}

\* ---- makeNodemap ---------------------------------------------------------
\* compare with a non-strict comparison
compare_le(a, b, j) == distVS(a, j) <= maximum(vvdist(a, b), distVS(b, j))

\* compare[a,b] for source j (lines 306 and 313)
compare(a, b, j) == distVS(a, j) < maximum(vvdist(a, b), distVS(b, j))

\* ii[mask] for source j with candidates ii (lines 313-317)
relNeighbors(ii, j) ==
  sorted({a \in ii : Cardinality({b \in ii : compare(a, b, j)})
                       = Cardinality(ii) - 1})

\* VSdict[i].append(j) on a defaultdict(list) that keeps insertion order
VSappend(D, i, j) ==
  IF \E n \in DOMAIN D : D[n][1] = i
  THEN [n \in DOMAIN D |->
          IF D[n][1] = i THEN <<i, Append(D[n][2], j)>> ELSE D[n]]
  ELSE Append(D, <<i, <<j>>>>)

RECURSIVE VSappendAll(_, _, _)
VSappendAll(D, is, j) ==
  IF is = <<>> THEN D
  ELSE VSappendAll(VSappend(D, Head(is), j), Tail(is), j)

\* the loop of lines 298-318 over the sources j, j+1, ...
RECURSIVE buildVS(_, _, _)
buildVS(D, SV, j) ==
  IF j > Len(SV) THEN D
  ELSE buildVS(VSappendAll(D, SV[j], j), SV, j + 1)

\* ---- draw ----------------------------------------------------------------
\* while ii>1: W[ii]+=1 ; ii = P[ii]
RECURSIVE walk(_, _)
walk(w, ii) ==
  IF ii > 1 THEN walk([w EXCEPT ![ii] = @ + 1], P[ii]) ELSE w

\* for i in reversed(range(rootNodes,o)), from i downwards
RECURSIVE weightPass(_, _)
weightPass(w, i) ==
  IF i < rootNodes THEN w ELSE weightPass(walk(w, P[i]), i - 1)

\* ---- initial state -------------------------------------------------------
\* lines 324-347 and 359-363.  The root is at coordinate 0.  darts returns
\* between 1 and MaxSrc sources.  oo, gi, ki, mask and the maps are not yet
\* assigned; at is the place where the loop is left.
Init ==
  /\ pc = "observe"
  /\ at = "loop"
  /\ outcome = "running"
  /\ drawn = "pending"
  /\ XY = [i \in 0..(vmax - 1) |-> 0]
  /\ P = [i \in 0..(vmax - 1) |-> -1]
  /\ W = [i \in 0..(vmax - 1) |-> 0]
  /\ o = rootNodes
  /\ oo = rootNodes
  /\ sXY \in SourceSeqs
  /\ snum = Len(sXY)
  /\ vv = <<>>
  /\ SVdict = <<>>
  /\ VSdict = <<>>
  /\ mask = <<>>
  /\ gi = 0
  /\ ki = 0
  /\ noCand = {}

\* ---- the main loop -------------------------------------------------------
\* lines 284-291 on a Delaunay triangulation: as soon as one vein node lies
\* inside the frame, every simplex has a vertex that is not a corner of the
\* frame, so no vv[j] is empty
Candidates == SUBSET Stored \ {{}}

\* lines 284-291 on whatever the triangulation returns, a simplex of frame
\* corners included
CandidatesAny == SUBSET Stored

\* lines 368-371 and 280-318: distances, makeNodemap up to its return
MakeNodemap ==
  /\ pc = "observe"
  /\ \E cand \in [1..snum -> Candidates] :
       LET SV == [j \in 1..snum |-> relNeighbors(cand[j], j)]
       IN  /\ vv' = cand
           /\ SVdict' = SV
           /\ VSdict' = buildVS(<<>>, SV, 1)
           /\ noCand' = {j \in 1..snum : cand[j] = {}}
  /\ pc' = "nodemap"
  /\ UNCHANGED <<at, outcome, drawn, XY, P, W, o, oo, sXY, snum, mask,
                 gi, ki>>

\* lines 368-371 and 280-318 when the candidate sets may be empty
MakeNodemapAny ==
  /\ pc = "observe"
  /\ \E cand \in [1..snum -> CandidatesAny] :
       LET SV == [j \in 1..snum |-> relNeighbors(cand[j], j)]
       IN  /\ vv' = cand
           /\ SVdict' = SV
           /\ VSdict' = buildVS(<<>>, SV, 1)
           /\ noCand' = {j \in 1..snum : cand[j] = {}}
  /\ pc' = "nodemap"
  /\ UNCHANGED <<at, outcome, drawn, XY, P, W, o, oo, sXY, snum, mask,
                 gi, ki>>

\* lines 320 and 371-375: makeNodemap returns, its local vv is gone, oo = o
StartGrow ==
  /\ pc = "nodemap"
  /\ vv' = <<>>
  /\ oo' = o
  /\ gi' = 1
  /\ pc' = "grow"
  /\ UNCHANGED <<at, outcome, drawn, XY, P, W, o, sXY, snum, SVdict,
                 VSdict, mask, ki, noCand>>

\* the grow condition with "not all" in place of "not any"
growCond_notall(i, jj) ==
  /\ jj # <<>>
  /\ ~ \A n \in DOMAIN jj : distVS(i, jj[n]) <= killzone

\* lines 376-377: jj and not any(distVS[i,jj]<=killzone)
growCond(i, jj) ==
  /\ jj # <<>>
  /\ ~ \E n \in DOMAIN jj : distVS(i, jj[n]) <= killzone

RECURSIVE sumTxy(_, _)
sumTxy(i, jj) ==
  IF jj = <<>> THEN 0 ELSE (XY[i] - sXY[Head(jj)]) + sumTxy(i, Tail(jj))

\* lines 375-383: one item of VSdict; XY[o,:] raises IndexError at o >= vmax
Grow ==
  /\ pc = "grow"
  /\ gi <= Len(VSdict)
  /\ LET i == VSdict[gi][1]
         jj == VSdict[gi][2]
     IN  IF growCond(i, jj)
         THEN IF o >= vmax
              THEN /\ pc' = "draw"
                   /\ at' = "grow"
                   /\ outcome' = "IndexError"
                   /\ UNCHANGED <<XY, P, o, gi>>
              ELSE /\ XY' = [XY EXCEPT ![o] = XY[i] - cosA(sumTxy(i, jj)) * veinNode]
                   /\ P' = [P EXCEPT ![o] = i]
                   /\ o' = o + 1
                   /\ gi' = gi + 1
                   /\ UNCHANGED <<pc, at, outcome>>
         ELSE /\ gi' = gi + 1
              /\ UNCHANGED <<pc, at, outcome, XY, P, o>>
  /\ UNCHANGED <<drawn, W, oo, sXY, snum, vv, SVdict, VSdict, mask, ki,
                 noCand>>

\* line 386: mask = ones(snum)
StartKill ==
  /\ pc = "grow"
  /\ gi > Len(VSdict)
  /\ mask' = [j \in 1..snum |-> TRUE]
  /\ ki' = 1
  /\ pc' = "kill"
  /\ UNCHANGED <<at, outcome, drawn, XY, P, W, o, oo, sXY, snum,
                 vv, SVdict, VSdict, gi, noCand>>

\* number of rows of the slice [o:o+mn]
sliceLen(mn) ==
  LET lo == IF o < vmax THEN o ELSE vmax
      hi == IF o + mn < vmax THEN o + mn ELSE vmax
  IN  hi - lo

\* line 393-394: XY[ii,:] + cos(arctan2(XY[ii]-sXY[j]))*veinNode
killXY(v, j) == XY[v] + cosA(XY[v] - sXY[j]) * veinNode

\* lines 387-396: one item of SVdict.  A value of mn rows is assigned to a
\* slice of k rows: equal shapes copy, one row broadcasts to any k (also to
\* k = 0, which writes nothing), anything else raises ValueError.
Kill ==
  /\ pc = "kill"
  /\ ki <= Len(SVdict)
  /\ LET j == ki
         ii == SVdict[j]
         mn == Len(ii)
         k == sliceLen(mn)
     IN  IF \A n \in 1..mn : distVS(ii[n], j) <= killzone
         THEN IF mn = k \/ mn = 1
              THEN /\ mask' = [mask EXCEPT ![j] = FALSE]
                   /\ XY' = [x \in DOMAIN XY |->
                               IF x >= o /\ x < o + k
                               THEN killXY(ii[x - o + 1], j) ELSE XY[x]]
                   /\ P' = [x \in DOMAIN P |->
                               IF x >= o /\ x < o + k
                               THEN ii[x - o + 1] ELSE P[x]]
                   /\ o' = o + mn
                   /\ ki' = ki + 1
                   /\ UNCHANGED <<pc, at, outcome>>
              ELSE /\ mask' = [mask EXCEPT ![j] = FALSE]
                   /\ pc' = "draw"
                   /\ at' = "kill"
                   /\ outcome' = "ValueError"
                   /\ UNCHANGED <<XY, P, o, ki>>
         ELSE /\ ki' = ki + 1
              /\ UNCHANGED <<pc, at, outcome, XY, P, o, mask>>
  /\ UNCHANGED <<drawn, W, oo, sXY, snum, vv, SVdict, VSdict, gi, noCand>>

\* lines 401-404: the kill loop is over, the triangulation is rebuilt
EndKill ==
  /\ pc = "kill"
  /\ ki > Len(SVdict)
  /\ pc' = "rebuild"
  /\ UNCHANGED <<at, outcome, drawn, XY, P, W, o, oo, sXY, snum,
                 vv, SVdict, VSdict, mask, gi, ki, noCand>>

\* sXY[mask,:]
RECURSIVE select(_, _)
select(s, m) ==
  IF s = <<>> THEN <<>>
  ELSE IF Head(m) THEN <<Head(s)>> \o select(Tail(s), Tail(m))
       ELSE select(Tail(s), Tail(m))

\* lines 408-415 (and 426): remove dead source nodes, break on snum<3
Remove ==
  /\ pc = "rebuild"
  /\ sXY' = select(sXY, mask)
  /\ snum' = Len(select(sXY, mask))
  /\ IF Len(select(sXY, mask)) < 3
     THEN /\ pc' = "draw"
          /\ at' = "break"
          /\ outcome' = "normal"
     ELSE /\ pc' = "observe"
          /\ UNCHANGED <<at, outcome>>
  /\ UNCHANGED <<drawn, XY, P, W, o, oo, vv, SVdict, VSdict, mask, gi, ki,
                 noCand>>

\* lines 428-429: KeyboardInterrupt raised anywhere inside the try block
\* (inside makeNodemap it leaves main's variables as they are at "observe")
Interrupt ==
  /\ pc \in {"observe", "grow", "kill", "rebuild"}
  /\ at' = pc
  /\ pc' = "draw"
  /\ outcome' = "cancelled"
  /\ UNCHANGED <<drawn, XY, P, W, o, oo, sXY, snum, vv, SVdict, VSdict,
                 mask, gi, ki, noCand>>

\* lines 431-441 and 159-163: the finally block calls draw; P[i] raises
\* IndexError for i >= vmax
Draw ==
  /\ pc = "draw"
  /\ pc' = "done"
  /\ IF o > vmax
     THEN /\ drawn' = "IndexError"
          /\ W' = W
     ELSE /\ drawn' = "ok"
          /\ W' = weightPass(W, o - 1)
  /\ UNCHANGED <<at, outcome, XY, P, o, oo, sXY, snum, vv, SVdict, VSdict,
                 mask, gi, ki, noCand>>

\* lines 4-6: a second C^c, during the finally block, exits right away
InterruptDraw ==
  /\ pc = "draw"
  /\ pc' = "done"
  /\ drawn' = "KeyboardInterrupt"
  /\ UNCHANGED <<at, outcome, XY, P, W, o, oo, sXY, snum, vv, SVdict,
                 VSdict, mask, gi, ki, noCand>>

Next ==
  \/ MakeNodemap
  \/ StartGrow
  \/ Grow
  \/ StartKill
  \/ Kill
  \/ EndKill
  \/ Remove
  \/ Interrupt
  \/ Draw
  \/ InterruptDraw

Spec == Init /\ [][Next]_vars

\* the program on an unconstrained triangulation
NextAny ==
  \/ MakeNodemapAny
  \/ StartGrow
  \/ Grow
  \/ StartKill
  \/ Kill
  \/ EndKill
  \/ Remove
  \/ Interrupt
  \/ Draw
  \/ InterruptDraw

SpecAny == Init /\ [][NextAny]_vars

\* ==== properties ==========================================================

\* C1: every live vein node i < o has a stored parent; a root keeps -1 and
\* every other node has 0 <= P[i] < i, so parent links lead to a root.
C1_ParentBelow ==
  \A i \in 0..(o - 1) :
     /\ i \in DOMAIN P
     /\ IF i < rootNodes THEN P[i] = -1 ELSE 0 <= P[i] /\ P[i] < i

\* k is a proper ancestor of n along the parent links
RECURSIVE IsAncestor(_, _)
IsAncestor(k, n) ==
  /\ P[n] # -1
  /\ (P[n] = k \/ IsAncestor(k, P[n]))

\* C2: after the weight pass of draw, W[k] of every live node k, roots
\* included, is the number of live nodes that have k as a proper ancestor.
C2_Weights ==
  (pc = "done" /\ drawn = "ok") =>
     \A k \in 0..(o - 1) :
        W[k] = Cardinality({n \in 0..(o - 1) : IsAncestor(k, n)})

\* the grow loop is under way, or was left by an exception
GrowPhase == pc = "grow" \/ (pc \in {"draw", "done"} /\ at = "grow")

\* item g of VSdict has a source, and every source of it is farther than
\* killzone from the vein node
NoneNear(g) ==
  /\ VSdict[g][2] # <<>>
  /\ \A n \in DOMAIN VSdict[g][2] :
        Abs(XY[VSdict[g][1]] - sXY[VSdict[g][2][n]]) > killzone

\* item g of VSdict has a source farther than killzone from the vein node
SomeFar(g) ==
  \E n \in DOMAIN VSdict[g][2] :
     Abs(XY[VSdict[g][1]] - sXY[VSdict[g][2][n]]) > killzone

\* the nodes the grow loop of this iteration has created with parent i
GrowChildren(i) == {n \in oo..(o - 1) : P[n] = i}

\* C3 (as amended): the grow loop creates exactly one node with parent i for
\* every item i of the inverse map none of whose sources is within killzone
\* of i, and no node for any other vein node (one of whose sources is within
\* killzone, or that has no source); when the node to create does not fit
\* (o >= vmax) the loop is left by IndexError and creates nothing.
C3_GrowNoneNear ==
  GrowPhase =>
     /\ \A i \in 0..(vmax - 1) :
          Cardinality(GrowChildren(i)) =
            IF \E g \in 1..(gi - 1) : VSdict[g][1] = i /\ NoneNear(g)
            THEN 1 ELSE 0
     /\ outcome = "IndexError" => (o >= vmax /\ NoneNear(gi))

\* C3 (as stated): one node with parent i whenever not all of i's sources
\* are within killzone of i.
C3_GrowNotAllNear ==
  GrowPhase =>
     \A i \in 0..(vmax - 1) :
        Cardinality(GrowChildren(i)) =
          IF \E g \in 1..(gi - 1) : VSdict[g][1] = i /\ SomeFar(g)
          THEN 1 ELSE 0

\* the grow loop has passed an item that grew and an item that has both a
\* source within killzone and a source beyond it
C3_Witness ==
  /\ pc = "grow"
  /\ \E g \in 1..(gi - 1) : NoneNear(g) /\ GrowChildren(VSdict[g][1]) # {}
  /\ \E g \in 1..(gi - 1) : SomeFar(g) /\ ~NoneNear(g)

\* a step of the kill loop that handles source ki to the end, or raises
KillStep ==
  /\ pc = "kill"
  /\ ki <= Len(SVdict)
  /\ (ki' = ki + 1 \/ outcome' = "ValueError")

\* C4: source s is marked in the kill loop and removed at the end of the
\* iteration iff every vein node of forwardMap[s] is within killzone of s;
\* each node v of forwardMap[s] then gets one new node with parent v, so o
\* grows by |forwardMap[s]|; the surviving sources are the unmarked ones.
C4_KillStep ==
  [][ /\ KillStep =>
           LET ii == SVdict[ki]
               dead == \A n \in DOMAIN ii :
                          Abs(XY[ii[n]] - sXY[ki]) <= killzone
           IN  /\ mask'[ki] = ~dead
               /\ dead => /\ o' = o + Len(ii)
                          /\ \A n \in DOMAIN ii :
                                /\ (o + n - 1) \in DOMAIN P'
                                /\ P'[o + n - 1] = ii[n]
               /\ ~dead => (o' = o /\ P' = P)
      /\ (pc = "rebuild" /\ pc' \in {"observe", "draw"} /\ at' # "rebuild") =>
           /\ Len(sXY') = Cardinality({j \in DOMAIN mask : mask[j]})
           /\ \A j \in DOMAIN mask : mask[j] <=> sXY[j] \in Range(sXY')
    ]_vars

\* C5: the node the kill loop creates for vein node v and source s lies one
\* step from v on the side of s.
C5_KillToward ==
  [][ (KillStep /\ o' > o) =>
         \A n \in DOMAIN SVdict[ki] :
            LET v == SVdict[ki][n]
                new == o + n - 1
            IN  (new \in DOMAIN XY' /\ XY[v] # sXY[ki]) =>
                   XY'[new] = XY[v] + veinNode *
                                (IF sXY[ki] > XY[v] THEN 1 ELSE -1)
    ]_vars

\* C6: a cancelled run hands to draw the state of an iteration boundary,
\* never one in which the iteration under way has already added nodes.
C6_Boundary ==
  outcome = "cancelled" => ~(at \in {"grow", "kill", "rebuild"} /\ o > oo)

\* C7: the live node count never exceeds the capacity, and the storage is
\* never extended beyond it.
C7_Capacity ==
  /\ o <= vmax
  /\ DOMAIN XY = 0..(vmax - 1)
  /\ DOMAIN P = 0..(vmax - 1)

\* C8: absent cancellation the loop is left only with fewer than 3 live
\* source nodes.
C8_Terminates ==
  (pc \in {"draw", "done"} /\ outcome # "cancelled") => snum < 3

C10_RelativeNeighbours ==
  pc = "nodemap" =>
     \A j \in DOMAIN vv : \A v \in 0..(vmax - 1) :
        /\ v \in Range(SVdict[j]) <=>
             /\ v \in vv[j]
             /\ \A u \in vv[j] \ {v} :
                   \/ Abs(XY[v] - sXY[j]) < Abs(XY[u] - sXY[j])
                   \/ Abs(XY[v] - sXY[j]) < Abs(XY[u] - XY[v])
        /\ (\E n \in DOMAIN VSdict :
               VSdict[n][1] = v /\ j \in Range(VSdict[n][2]))
             <=> v \in Range(SVdict[j])

\* makeNodemap has returned a map in which a source has a single candidate,
\* a source has a candidate that passes among several, and a candidate
\* fails on an exact tie
C10_Witness ==
  /\ pc = "nodemap"
  /\ \E j \in DOMAIN vv : Cardinality(vv[j]) = 1 /\ Len(SVdict[j]) = 1
  /\ \E j \in DOMAIN vv :
        /\ Cardinality(vv[j]) >= 2
        /\ SVdict[j] # <<>>
        /\ Len(SVdict[j]) < Cardinality(vv[j])
  /\ \E j \in DOMAIN vv : \E v \in vv[j] : \E u \in vv[j] \ {v} :
        /\ Abs(XY[v] - sXY[j]) =
             maximum(Abs(XY[u] - sXY[j]), Abs(XY[u] - XY[v]))
        /\ v \notin Range(SVdict[j])
====
